---- MODULE Spec2Model ----
(***************************************************************************)
(* Blackjack simulator (src/main.rs): Card, Hand, Deck, BasicStrategy and  *)
(* the session object BlackjackApp with play_game, pay_bet and the reset   *)
(* handler.                                                                *)
(*                                                                         *)
(* Representation.                                                         *)
(*  - A card is its rank 1..13.  The suit only feeds Card::name (display). *)
(*  - A hand is a record of the fields of struct Hand; cards is the        *)
(*    sequence of ranks in deal order.                                     *)
(*  - The deck is the number of cards of each rank still in the shoe.      *)
(*    Deck::shuffle is a uniform permutation and Deck::deal_card pops the  *)
(*    last card, so the next card is any card that is still in the shoe:   *)
(*    deal_card is a nondeterministic choice among the remaining ranks.    *)
(*  - Next is every step of the program and Spec the session from its     *)
(*    construction.  The counters and the bankroll have no limit and one   *)
(*    round dealt from a new shoe has more than 10^9 states (thirteen      *)
(*    ranks for every card), so Spec is not enumerated.  The other         *)
(*    specifications start in states that sessions of the program reach    *)
(*    and take the steps of one part of it, all of them as the code takes  *)
(*    them: one call of play_game on a nearly used shoe (SpecUsedShoe,     *)
(*    SpecLowShoe), the call up to the end of the player loop on a new     *)
(*    shoe (SpecPlayer, SpecShuffle), the dealer loop and the code after   *)
(*    it (SpecDealer), one pay_bet call (SpecPay), and every request of    *)
(*    the window in sessions that end by themselves (SpecLowBankroll).     *)
(*  - Money is in cents (bankroll 1000.0 is 100000, the bet 10.0 is 1000); *)
(*    every amount the program computes is a multiple of 5.0, exact in f64.*)
(*  - play_game is split at its loops: play_game (reshuffle check, deal,   *)
(*    natural check), FirstAction, PlayerTurn (one iteration of the player *)
(*    loop), DealerTurn (one iteration of the dealer loop), Resolve (the   *)
(*    code after the dealer loop).  pc is the position inside play_game.   *)
(*  - PlayGame, PlayMany with LoopPlay and LoopStop, and Reset are the     *)
(*    three buttons of the window.                                         *)
(*  - An unwrap() on None aborts the process: abort records which one.     *)
(*  - append_log only writes to the log file and is not modelled.          *)
(***************************************************************************)
EXTENDS Integers, Sequences, FiniteSets, TLC

\* ---------------------------------------------------------------- bounds
\* a shoe at the reshuffle threshold holds ReshuffleBelow - 1 up to
\* ReshuffleBelow + LowShoeSlack cards: Aces, and at most LowShoeOthers
\* cards of each rank of LowShoeRanks
LowShoeSlack == 1
LowShoeOthers == 2
LowShoeRanks == {6, 10}
\* pay_bet is entered in sessions that have surrendered 0..PayRounds rounds
PayRounds == 8

\* ------------------------------------------------------- program constants
MaxRankNo == 13
Ranks == 1..MaxRankNo
NumPacks == 6
ReshuffleBelow == 15
InitialBankroll == 100000
BetAmount == 1000
DealerStandsAt == 17
LoopGames == 1000

None == "None"
GameResult == {"PlayerWin", "DealerWin", "Push", "PlayerBlackjack",
               "Surrender", "DoubledWin", "DoubledLose"}
Action == {"Hit", "Stand", "DoubleDown", "Split", "Surrender"}

\* ------------------------------------------------------------------- Card
value(rank) ==
    IF rank = 1 THEN 11
    ELSE IF rank \in {11, 12, 13} THEN 10
    ELSE rank

\* ------------------------------------------------------------------- Hand
Hand_new == [cards |-> <<>>, doubled |-> FALSE, split |-> FALSE,
             first_action |-> TRUE, live |-> TRUE]

add_card(hand, card) == [hand EXCEPT !.cards = Append(@, card)]

RECURSIVE SumValues(_)
SumValues(cards) ==
    IF cards = <<>> THEN 0 ELSE value(Head(cards)) + SumValues(Tail(cards))

RECURSIVE CountAces(_)
CountAces(cards) ==
    IF cards = <<>> THEN 0
    ELSE (IF Head(cards) = 1 THEN 1 ELSE 0) + CountAces(Tail(cards))

RECURSIVE ReduceAces(_, _)
ReduceAces(t, aces) ==
    IF t > 21 /\ aces > 0 THEN ReduceAces(t - 10, aces - 1) ELSE t

total(hand) == ReduceAces(SumValues(hand.cards), CountAces(hand.cards))

is_blackjack(hand) == Len(hand.cards) = 2 /\ total(hand) = 21

is_busted(hand) == total(hand) > 21

\* is_soft without the test for an Ace
is_soft_no_ace_test(hand) == SumValues(hand.cards) <= 21

is_soft(hand) == CountAces(hand.cards) > 0 /\ SumValues(hand.cards) <= 21

\* ------------------------------------------------------------------- Deck
Deck_new(count) == [r \in Ranks |-> 4 * count]

RECURSIVE SumCounts(_, _)
SumCounts(d, r) == IF r = 0 THEN 0 ELSE d[r] + SumCounts(d, r - 1)

deck_len(d) == SumCounts(d, MaxRankNo)

\* ranks that the next deal_card may return
TopCards(d) == {r \in Ranks : d[r] > 0}

Remove(d, card) == [d EXCEPT ![card] = @ - 1]

\* ---------------------------------------------------------- BasicStrategy
determine_first_action(player_hand, dealer_upcard) ==
    LET player_total == total(player_hand)
        dealer_value == value(dealer_upcard)
        c == player_hand.cards
    IN  IF is_soft(player_hand) /\ c[1] = 1 /\ c[2] = 1 THEN "Split"
        ELSE IF is_soft(player_hand) /\ player_total = 19 /\ dealer_value = 6
            THEN "DoubleDown"
        ELSE IF is_soft(player_hand) /\ player_total = 18 /\ dealer_value <= 6
            THEN "DoubleDown"
        ELSE IF is_soft(player_hand) /\ player_total = 17
                /\ dealer_value \in 3..6
            THEN "DoubleDown"
        ELSE IF is_soft(player_hand)
                /\ (player_total = 16
                    \/ (player_total = 15 /\ dealer_value \in 4..6))
            THEN "DoubleDown"
        ELSE IF is_soft(player_hand)
                /\ (player_total = 14
                    \/ (player_total = 13 /\ dealer_value \in 5..6))
            THEN "DoubleDown"
        ELSE IF c[1] = c[2] /\ player_total = 18
                /\ (dealer_value < 7 \/ dealer_value >= 10)
            THEN "Split"
        ELSE IF c[1] = c[2] /\ player_total = 16 THEN "Split"
        ELSE IF c[1] = c[2] /\ player_total = 14 /\ dealer_value <= 7
            THEN "Split"
        ELSE IF c[1] = c[2] /\ player_total = 12 /\ dealer_value \in 3..7
            THEN "Split"
        ELSE IF c[1] = c[2]
                /\ (player_total = 6
                    \/ (player_total = 4 /\ dealer_value \in 4..7))
            THEN "Split"
        ELSE IF player_total = 16 /\ dealer_value \in 9..11 THEN "Surrender"
        ELSE IF player_total = 15 /\ dealer_value = 10 THEN "Surrender"
        ELSE IF player_total = 11 THEN "DoubleDown"
        ELSE IF player_total = 10 /\ dealer_value < 10 THEN "DoubleDown"
        ELSE IF player_total = 9 /\ dealer_value \in 3..6 THEN "DoubleDown"
        ELSE "Stand"

determine_action(player_hand, dealer_upcard) ==
    LET player_total == total(player_hand)
        dealer_value == value(dealer_upcard)
    IN  IF is_soft(player_hand) /\ player_total <= 17 THEN "Hit"
        ELSE IF is_soft(player_hand) /\ player_total = 18 /\ dealer_value >= 9
            THEN "Hit"
        ELSE IF player_total <= 11 THEN "Hit"
        ELSE IF player_total = 12 /\ (dealer_value < 4 \/ dealer_value > 6)
            THEN "Hit"
        ELSE IF player_total \in 13..16 /\ dealer_value >= 7 THEN "Hit"
        ELSE "Stand"

\* ---------------------------------------------------------------- pay_bet
\* pay_bet paying a natural at even money
pay_bet_even_money(result, bet) ==
    CASE result = "PlayerWin"       -> bet
      [] result = "DealerWin"       -> 0 - bet
      [] result = "Push"            -> 0
      [] result = "PlayerBlackjack" -> bet
      [] result = "Surrender"       -> 0 - (bet \div 2)
      [] result = "DoubledWin"      -> bet * 2
      [] result = "DoubledLose"     -> 0 - (bet * 2)

\* pay_bet taking the whole bet on a surrender
pay_bet_full_surrender(result, bet) ==
    CASE result = "PlayerWin"       -> bet
      [] result = "DealerWin"       -> 0 - bet
      [] result = "Push"            -> 0
      [] result = "PlayerBlackjack" -> (bet * 3) \div 2
      [] result = "Surrender"       -> 0 - bet
      [] result = "DoubledWin"      -> bet * 2
      [] result = "DoubledLose"     -> 0 - (bet * 2)

\* pay_bet taking one bet, not two, on a doubled loss
pay_bet_single_doubled_loss(result, bet) ==
    CASE result = "PlayerWin"       -> bet
      [] result = "DealerWin"       -> 0 - bet
      [] result = "Push"            -> 0
      [] result = "PlayerBlackjack" -> (bet * 3) \div 2
      [] result = "Surrender"       -> 0 - (bet \div 2)
      [] result = "DoubledWin"      -> bet * 2
      [] result = "DoubledLose"     -> 0 - bet

\* the change pay_bet makes to the bankroll
pay_bet(result, bet) ==
    CASE result = "PlayerWin"       -> bet
      [] result = "DealerWin"       -> 0 - bet
      [] result = "Push"            -> 0
      [] result = "PlayerBlackjack" -> (bet * 3) \div 2
      [] result = "Surrender"       -> 0 - (bet \div 2)
      [] result = "DoubledWin"      -> bet * 2
      [] result = "DoubledLose"     -> 0 - (bet * 2)

\* ------------------------------------------------------------------ state
VARIABLES
    last_game_result,   \* BlackjackApp.last_game_result: None or a GameResult
    games_played, wins, losses, pushes,
    deck,               \* BlackjackApp.deck: rank -> cards left
    bankroll, bet_amount,
    player_hand, dealer_hand,   \* locals of play_game
    pc,                 \* "idle": in update(), no handler running;
                        \* "called": play_game is entered; then "first" |
                        \* "player" | "dealer" inside it; "aborted";
                        \* and, around a lone pay_bet call, "pay" | "paid"
    abort,              \* "none" | "EmptyDeck" | "NoResult"
    pre,                \* history: the session when play_game was entered,
                        \* found: the cards it found in the shoe,
                        \* deck_len: the cards after its reshuffle test
    assigned,           \* history: last_game_result was set in this round
    plays,              \* history: play_game calls since the initial state
    rounds,             \* history: play_game returns since the last reset
    loop_left,          \* iterations left of `for _ in 0..1000`, 0 outside it
    pay_arg             \* the result a lone pay_bet call is given, else None

session == <<last_game_result, games_played, wins, losses, pushes,
             bankroll, bet_amount>>
hands == <<player_hand, dealer_hand>>
history == <<pre, assigned, plays, rounds>>
vars == <<last_game_result, games_played, wins, losses, pushes, deck,
          bankroll, bet_amount, player_hand, dealer_hand, pc, abort,
          pre, assigned, plays, rounds, loop_left, pay_arg>>

Snapshot(d) ==
    [games_played |-> games_played, wins |-> wins, losses |-> losses,
     pushes |-> pushes, bankroll |-> bankroll,
     last_game_result |-> last_game_result, found |-> deck_len(deck),
     deck_len |-> deck_len(d)]

\* BlackjackApp::default, but for the deck
InitSession ==
    /\ last_game_result = None
    /\ games_played = 0 /\ wins = 0 /\ losses = 0 /\ pushes = 0
    /\ bankroll = InitialBankroll
    /\ bet_amount = BetAmount
    /\ player_hand = Hand_new /\ dealer_hand = Hand_new
    /\ abort = "none"
    /\ pre = [games_played |-> 0, wins |-> 0, losses |-> 0, pushes |-> 0,
              bankroll |-> InitialBankroll, last_game_result |-> None,
              found |-> 0, deck_len |-> 0]
    /\ assigned = FALSE /\ plays = 0 /\ rounds = 0
    /\ loop_left = 0
    /\ pay_arg = None

Init ==
    /\ InitSession
    /\ deck = Deck_new(NumPacks)
    /\ pc = "idle"

\* ---------------------------------------------------------------- actions
\* the process dies on unwrap() of None
Abort(why) ==
    /\ pc' = "aborted" /\ abort' = why

\* a reshuffle test that also fires at exactly ReshuffleBelow cards
needs_reshuffle_at_threshold(d) == deck_len(d) <= ReshuffleBelow

\* the reshuffle test at the head of play_game
needs_reshuffle(d) == deck_len(d) < ReshuffleBelow

\* play_game up to the end of the natural check
play_game ==
    /\ pc = "called"
    /\ loop_left' = loop_left
    /\ LET d0 == IF needs_reshuffle(deck)
                 THEN Deck_new(NumPacks) ELSE deck
       IN  \E c1 \in TopCards(d0) :
           \E c2 \in TopCards(Remove(d0, c1)) :
           \E c3 \in TopCards(Remove(Remove(d0, c1), c2)) :
           \E c4 \in TopCards(Remove(Remove(Remove(d0, c1), c2), c3)) :
             LET p == add_card(add_card(Hand_new, c1), c3)
                 d == add_card(add_card(Hand_new, c2), c4)
             IN  /\ deck' = Remove(Remove(Remove(Remove(d0, c1), c2), c3), c4)
                 /\ player_hand' = p
                 /\ dealer_hand' = d
                 /\ bet_amount' = BetAmount
                 /\ pre' = Snapshot(d0)
                 /\ plays' = plays + 1
                 /\ abort' = abort
                 /\ pay_arg' = pay_arg
                 /\ IF is_blackjack(p) /\ is_blackjack(d) THEN
                        /\ last_game_result' = "Push"
                        /\ pushes' = pushes + 1
                        /\ games_played' = games_played + 1
                        /\ UNCHANGED <<wins, losses, bankroll>>
                        /\ assigned' = TRUE
                        /\ rounds' = rounds + 1
                        /\ pc' = "idle"
                    ELSE IF is_blackjack(d) THEN
                        /\ last_game_result' = "DealerWin"
                        /\ losses' = losses + 1
                        /\ games_played' = games_played + 1
                        /\ bankroll' = bankroll + pay_bet("DealerWin", BetAmount)
                        /\ UNCHANGED <<wins, pushes>>
                        /\ assigned' = TRUE
                        /\ rounds' = rounds + 1
                        /\ pc' = "idle"
                    ELSE IF is_blackjack(p) THEN
                        /\ last_game_result' = "PlayerBlackjack"
                        /\ wins' = wins + 1
                        /\ games_played' = games_played + 1
                        /\ bankroll' = bankroll
                                       + pay_bet("PlayerBlackjack", BetAmount)
                        /\ UNCHANGED <<losses, pushes>>
                        /\ assigned' = TRUE
                        /\ rounds' = rounds + 1
                        /\ pc' = "idle"
                    ELSE
                        /\ UNCHANGED <<last_game_result, games_played, wins,
                                       losses, pushes, bankroll>>
                        /\ assigned' = FALSE
                        /\ rounds' = rounds
                        /\ pc' = "first"

\* buttons that stay enabled whatever the bankroll
can_play_always == TRUE

\* the buttons "Play Game" and "Play 1000 Games" are enabled by can_play
can_play == bankroll >= bet_amount

\* the "Play Game" button: play_game is called
PlayGame ==
    /\ pc = "idle"
    /\ loop_left = 0
    /\ can_play
    /\ pc' = "called"
    /\ UNCHANGED <<session, deck, hands, abort, history, loop_left, pay_arg>>

\* the "Play 1000 Games" button: the loop is entered
PlayMany ==
    /\ pc = "idle"
    /\ loop_left = 0
    /\ can_play
    /\ loop_left' = LoopGames
    /\ UNCHANGED <<session, deck, hands, pc, abort, history, pay_arg>>

\* one iteration of the loop that passes the bankroll test: play_game is
\* called
LoopPlay ==
    /\ pc = "idle"
    /\ loop_left > 0
    /\ ~(bankroll < bet_amount)
    /\ pc' = "called"
    /\ loop_left' = loop_left - 1
    /\ UNCHANGED <<session, deck, hands, abort, history, pay_arg>>

\* the iteration that fails the bankroll test returns from the handler
LoopStop ==
    /\ pc = "idle"
    /\ loop_left > 0
    /\ bankroll < bet_amount
    /\ loop_left' = 0
    /\ UNCHANGED <<session, deck, hands, pc, abort, history, pay_arg>>

\* a double down that leaves the hand in play
double_down_stays_live(hand, card) ==
    [add_card(hand, card) EXCEPT !.doubled = TRUE]

\* the hand after the double-down card
double_down(hand, card) ==
    [add_card(hand, card) EXCEPT !.doubled = TRUE, !.live = FALSE]

\* the hand after a split recommendation
split_hand(hand) == [hand EXCEPT !.live = FALSE]

\* a dealer who also hits a soft 17
dealer_hits_soft_17(hand) ==
    \/ total(hand) < DealerStandsAt
    \/ total(hand) = DealerStandsAt /\ is_soft(hand)

\* the dealer loop's test
dealer_hits(hand) == total(hand) < DealerStandsAt

\* the single iteration of `while player_hand.first_action`
FirstAction ==
    /\ pc = "first"
    /\ UNCHANGED <<loop_left, pay_arg>>
    /\ LET action == determine_first_action(player_hand, dealer_hand.cards[1])
       IN  CASE action = "DoubleDown" ->
                  IF deck_len(deck) = 0 THEN
                      /\ Abort("EmptyDeck")
                      /\ UNCHANGED <<session, deck, hands, history>>
                  ELSE
                      \E c \in TopCards(deck) :
                        LET h == [double_down(player_hand, c) EXCEPT
                                    !.first_action = FALSE]
                        IN  /\ deck' = Remove(deck, c)
                            /\ player_hand' = h
                            /\ IF is_busted(h) THEN
                                   /\ last_game_result' = "DoubledLose"
                                   /\ losses' = losses + 1
                                   /\ games_played' = games_played + 1
                                   /\ bankroll' = bankroll
                                        + pay_bet("DoubledLose", bet_amount)
                                   /\ assigned' = TRUE
                                   /\ UNCHANGED <<wins, pushes>>
                               ELSE
                                   UNCHANGED <<last_game_result, losses,
                                               games_played, bankroll,
                                               assigned, wins, pushes>>
                            /\ pc' = IF h.live THEN "player" ELSE "dealer"
                            /\ UNCHANGED <<bet_amount, dealer_hand, abort,
                                           pre, plays, rounds>>
             [] action = "Surrender" ->
                  /\ last_game_result' = "Surrender"
                  /\ losses' = losses + 1
                  /\ games_played' = games_played + 1
                  /\ bankroll' = bankroll + pay_bet("Surrender", bet_amount)
                  /\ player_hand' = [player_hand EXCEPT !.live = FALSE]
                  /\ assigned' = TRUE
                  /\ rounds' = rounds + 1
                  /\ pc' = "idle"
                  /\ UNCHANGED <<wins, pushes, deck, bet_amount, dealer_hand,
                                 abort, pre, plays>>
             [] action = "Split" ->
                  /\ player_hand' = [split_hand(player_hand) EXCEPT
                                       !.first_action = FALSE]
                  /\ pc' = IF split_hand(player_hand).live
                           THEN "player" ELSE "dealer"
                  /\ UNCHANGED <<session, deck, dealer_hand, abort, history>>
             [] OTHER ->
                  /\ player_hand' = [player_hand EXCEPT !.first_action = FALSE]
                  /\ pc' = "player"
                  /\ UNCHANGED <<session, deck, dealer_hand, abort, history>>

\* one iteration of `while player_hand.live`
PlayerTurn ==
    /\ pc = "player"
    /\ UNCHANGED <<loop_left, pay_arg>>
    /\ player_hand.live
    /\ LET action == determine_action(player_hand, dealer_hand.cards[1])
       IN  CASE action = "Hit" ->
                  IF deck_len(deck) = 0 THEN
                      /\ Abort("EmptyDeck")
                      /\ UNCHANGED <<session, deck, hands, history>>
                  ELSE
                      \E c \in TopCards(deck) :
                        LET h == add_card(player_hand, c)
                        IN  /\ deck' = Remove(deck, c)
                            /\ IF is_busted(h) THEN
                                   /\ last_game_result' = "DealerWin"
                                   /\ losses' = losses + 1
                                   /\ games_played' = games_played + 1
                                   /\ bankroll' = bankroll
                                        + pay_bet("DealerWin", bet_amount)
                                   /\ player_hand' = [h EXCEPT !.live = FALSE]
                                   /\ assigned' = TRUE
                                   /\ pc' = "dealer"
                                   /\ UNCHANGED <<wins, pushes>>
                               ELSE
                                   /\ player_hand' = h
                                   /\ pc' = "player"
                                   /\ UNCHANGED <<last_game_result, losses,
                                                  games_played, bankroll,
                                                  assigned, wins, pushes>>
                            /\ UNCHANGED <<bet_amount, dealer_hand, abort,
                                           pre, plays, rounds>>
             [] OTHER ->
                  /\ player_hand' = [player_hand EXCEPT !.live = FALSE]
                  /\ pc' = "dealer"
                  /\ UNCHANGED <<session, deck, dealer_hand, abort, history>>

\* one iteration of `while dealer_hand.total() < 17`
DealerTurn ==
    /\ pc = "dealer"
    /\ dealer_hits(dealer_hand)
    /\ UNCHANGED <<loop_left, pay_arg>>
    /\ IF deck_len(deck) = 0 THEN
           /\ Abort("EmptyDeck")
           /\ UNCHANGED <<session, deck, hands, history>>
       ELSE
           \E c \in TopCards(deck) :
             LET h == add_card(dealer_hand, c)
             IN  /\ deck' = Remove(deck, c)
                 /\ dealer_hand' = h
                 /\ IF is_busted(h) THEN
                        /\ last_game_result' = "PlayerWin"
                        /\ wins' = wins + 1
                        /\ games_played' = games_played + 1
                        /\ bankroll' = bankroll
                                       + pay_bet("PlayerWin", bet_amount)
                        /\ assigned' = TRUE
                        /\ rounds' = rounds + 1
                        /\ pc' = "idle"
                        /\ UNCHANGED <<losses, pushes>>
                    ELSE
                        /\ pc' = "dealer"
                        /\ UNCHANGED <<last_game_result, wins, games_played,
                                       bankroll, assigned, rounds, losses,
                                       pushes>>
                 /\ UNCHANGED <<bet_amount, player_hand, abort, pre, plays>>

\* the outcome the comparison of the totals records
CompareTotals(p, d) ==
    IF total(p) > total(d)
    THEN (IF p.doubled THEN "DoubledWin" ELSE "PlayerWin")
    ELSE IF total(p) < total(d)
    THEN (IF p.doubled THEN "DoubledLose" ELSE "DealerWin")
    ELSE "Push"

\* the code after the dealer loop
Resolve ==
    /\ pc = "dealer"
    /\ ~dealer_hits(dealer_hand)
    /\ UNCHANGED <<loop_left, pay_arg>>
    /\ LET compared == player_hand.live
           r == IF compared THEN CompareTotals(player_hand, dealer_hand)
                ELSE last_game_result
       IN  /\ last_game_result' = r
           /\ assigned' = (assigned \/ compared)
           /\ wins' = IF compared /\ total(player_hand) > total(dealer_hand)
                      THEN wins + 1 ELSE wins
           /\ losses' = IF compared /\ total(player_hand) < total(dealer_hand)
                        THEN losses + 1 ELSE losses
           /\ pushes' = IF compared /\ total(player_hand) = total(dealer_hand)
                        THEN pushes + 1 ELSE pushes
           /\ games_played' = games_played + 1
           /\ IF r = None THEN
                  /\ Abort("NoResult")
                  /\ UNCHANGED <<bankroll, rounds>>
              ELSE
                  /\ bankroll' = bankroll + pay_bet(r, bet_amount)
                  /\ rounds' = rounds + 1
                  /\ pc' = "idle"
                  /\ abort' = abort
    /\ UNCHANGED <<deck, bet_amount, hands, pre, plays>>

\* a reset that also builds a new shoe
Reset_new_shoe ==
    /\ pc = "idle"
    /\ loop_left = 0
    /\ UNCHANGED <<loop_left, pay_arg>>
    /\ bankroll' = InitialBankroll
    /\ games_played' = 0
    /\ wins' = 0
    /\ losses' = 0
    /\ pushes' = 0
    /\ last_game_result' = None
    /\ rounds' = 0
    /\ deck' = Deck_new(NumPacks)
    /\ UNCHANGED <<bet_amount, hands, pc, abort, pre, assigned, plays>>

\* the "Reset Bankroll" button
Reset ==
    /\ pc = "idle"
    /\ loop_left = 0
    /\ UNCHANGED <<loop_left, pay_arg>>
    /\ bankroll' = InitialBankroll
    /\ games_played' = 0
    /\ wins' = 0
    /\ losses' = 0
    /\ pushes' = 0
    /\ last_game_result' = None
    /\ rounds' = 0
    /\ UNCHANGED <<deck, bet_amount, hands, pc, abort, pre, assigned, plays>>

\* Every step of the program: the buttons "Play Game", "Play 1000 Games"
\* with its loop and "Reset Bankroll", and the steps of play_game.
Next ==
    \/ PlayGame
    \/ PlayMany
    \/ LoopPlay
    \/ LoopStop
    \/ play_game
    \/ FirstAction
    \/ PlayerTurn
    \/ DealerTurn
    \/ Resolve
    \/ Reset

Spec == Init /\ [][Next]_vars

\* one call of play_game, from its entry to its return or its abort
NextRound ==
    \/ play_game
    \/ FirstAction
    \/ PlayerTurn
    \/ DealerTurn
    \/ Resolve

\* a call of play_game from its entry to the end of the player loop
NextPlayer ==
    \/ play_game
    \/ FirstAction
    \/ PlayerTurn

\* the dealer loop of play_game and the code after it
NextDealer ==
    \/ DealerTurn
    \/ Resolve

\* The variables in the session s, outside of play_game: the fields of
\* BlackjackApp, and of the last round that returned its hands and the
\* session it was entered in.
Between(s) ==
    /\ last_game_result = s.last_game_result
    /\ games_played = s.games_played
    /\ wins = s.wins /\ losses = s.losses /\ pushes = s.pushes
    /\ bankroll = s.bankroll
    /\ bet_amount = BetAmount
    /\ deck = [r \in Ranks |-> s.deck[r]]
    /\ player_hand = [cards |-> s.player, doubled |-> s.doubled,
                      split |-> FALSE, first_action |-> s.first_action,
                      live |-> s.live]
    /\ dealer_hand = [Hand_new EXCEPT !.cards = s.dealer]
    /\ abort = "none"
    /\ pre = s.pre
    /\ assigned = s.assigned /\ plays = 0 /\ rounds = s.rounds
    /\ loop_left = 0
    /\ pay_arg = None

\* the session s after the "Reset Bankroll" button
AfterReset(s) ==
    [s EXCEPT !.bankroll = InitialBankroll, !.games_played = 0,
              !.wins = 0, !.losses = 0, !.pushes = 0,
              !.last_game_result = None, !.rounds = 0]

\* Sessions that have lost nearly all of the bankroll and have nearly used
\* up their second shoe, of which Aces, sixes and tens are left: the fields
\* of BlackjackApp after rounds play_game calls from construction, deck
\* the number of cards of each rank 1..13 left in the shoe; of the last of
\* these rounds the two hands, whether it assigned the result, and the
\* session that it was entered in.
LowSessions ==
    {
      [rounds |-> 111, bankroll |-> 0, games_played |-> 125,
       wins |-> 8, losses |-> 28, pushes |-> 0,
       last_game_result |-> "DealerWin",
       deck |-> <<3, 0, 0, 0, 0, 14, 0, 0, 0, 19, 0, 0, 0>>,
       player |-> <<6, 6, 10>>, dealer |-> <<10, 10>>,
       doubled |-> FALSE, first_action |-> FALSE, live |-> FALSE,
       assigned |-> TRUE,
       pre |-> [games_played |-> 123, wins |-> 8, losses |-> 27,
                pushes |-> 0, bankroll |-> 2000,
                last_game_result |-> "DealerWin",
                found |-> 41, deck_len |-> 41]],
      [rounds |-> 112, bankroll |-> 500, games_played |-> 125,
       wins |-> 8, losses |-> 28, pushes |-> 0,
       last_game_result |-> "Surrender",
       deck |-> <<3, 0, 0, 0, 0, 14, 0, 0, 0, 16, 0, 0, 0>>,
       player |-> <<6, 10>>, dealer |-> <<10, 6>>,
       doubled |-> FALSE, first_action |-> TRUE, live |-> FALSE,
       assigned |-> TRUE,
       pre |-> [games_played |-> 124, wins |-> 8, losses |-> 27,
                pushes |-> 0, bankroll |-> 1000,
                last_game_result |-> "DealerWin",
                found |-> 37, deck_len |-> 37]],
      [rounds |-> 111, bankroll |-> 1000, games_played |-> 124,
       wins |-> 8, losses |-> 27, pushes |-> 0,
       last_game_result |-> "DealerWin",
       deck |-> <<3, 0, 0, 0, 0, 11, 0, 0, 0, 22, 0, 0, 0>>,
       player |-> <<6, 6>>, dealer |-> <<6, 6, 6>>,
       doubled |-> FALSE, first_action |-> FALSE, live |-> FALSE,
       assigned |-> FALSE,
       pre |-> [games_played |-> 123, wins |-> 8, losses |-> 27,
                pushes |-> 0, bankroll |-> 2000,
                last_game_result |-> "DealerWin",
                found |-> 41, deck_len |-> 41]],
      [rounds |-> 111, bankroll |-> 1500, games_played |-> 124,
       wins |-> 8, losses |-> 28, pushes |-> 0,
       last_game_result |-> "Surrender",
       deck |-> <<3, 0, 0, 0, 0, 14, 0, 0, 0, 20, 0, 0, 0>>,
       player |-> <<6, 10>>, dealer |-> <<10, 6>>,
       doubled |-> FALSE, first_action |-> TRUE, live |-> FALSE,
       assigned |-> TRUE,
       pre |-> [games_played |-> 123, wins |-> 8, losses |-> 27,
                pushes |-> 0, bankroll |-> 2000,
                last_game_result |-> "DealerWin",
                found |-> 41, deck_len |-> 41]],
      [rounds |-> 110, bankroll |-> 2000, games_played |-> 123,
       wins |-> 8, losses |-> 27, pushes |-> 0,
       last_game_result |-> "DealerWin",
       deck |-> <<3, 0, 0, 0, 0, 16, 0, 0, 0, 22, 0, 0, 0>>,
       player |-> <<3, 13>>, dealer |-> <<2, 11, 9>>,
       doubled |-> FALSE, first_action |-> FALSE, live |-> FALSE,
       assigned |-> FALSE,
       pre |-> [games_played |-> 122, wins |-> 8, losses |-> 27,
                pushes |-> 0, bankroll |-> 3000,
                last_game_result |-> "DealerWin",
                found |-> 46, deck_len |-> 46]]
    }

\* play_game is entered on a nearly used shoe: "Play Game" was clicked in a
\* session of LowSessions that can pay the bet, or in any of them after
\* "Reset Bankroll".
InitUsedShoe ==
    \E s \in LowSessions \cup {AfterReset(t) : t \in LowSessions} :
      /\ Between(s)
      /\ can_play
      /\ pc = "called"

SpecUsedShoe == InitUsedShoe /\ [][NextRound]_vars

\* Shoes at the reshuffle threshold: earlier rounds have drawn all but
\* ReshuffleBelow - 1 to ReshuffleBelow + LowShoeSlack cards, Aces and at
\* most LowShoeOthers cards of each rank of LowShoeRanks.
LowShoes ==
    LET shoe(aces, f) ==
            [r \in Ranks |-> IF r = 1 THEN aces
                             ELSE IF r \in LowShoeRanks THEN f[r] ELSE 0]
    IN  {d \in {shoe(aces, f) : aces \in 0..(4 * NumPacks),
                                f \in [LowShoeRanks -> 0..LowShoeOthers]} :
            /\ deck_len(d) >= ReshuffleBelow - 1
            /\ deck_len(d) <= ReshuffleBelow + LowShoeSlack}

\* the shoes of LowShoes that play_game deals from as they are
KeptShoes == {d \in LowShoes : deck_len(d) >= ReshuffleBelow}

\* play_game is entered on a shoe of KeptShoes: the session was reset and
\* "Play Game" clicked.
InitLowShoe ==
    /\ InitSession
    /\ deck \in KeptShoes
    /\ pc = "called"

SpecLowShoe == InitLowShoe /\ [][NextRound]_vars

\* play_game is entered on a shoe of LowShoes, one that it rebuilds or one
\* that it keeps.
InitShuffle ==
    /\ InitSession
    /\ deck \in LowShoes
    /\ pc = "called"

SpecShuffle == InitShuffle /\ [][NextPlayer]_vars

\* play_game is entered for the first time: "Play Game" was clicked in the
\* session as constructed.
InitCalled ==
    /\ InitSession
    /\ deck = Deck_new(NumPacks)
    /\ pc = "called"

SpecPlayer == InitCalled /\ [][NextPlayer]_vars

\* the ranks that count ten
TenRanks == {r \in Ranks : value(r) = 10}

\* The first round of a session when the dealer loop is reached: the
\* player was dealt two cards that count ten and stands on them, the
\* dealer holds any two cards of the new shoe that are not a natural.
InitDealer ==
    \E c1 \in TenRanks, c2 \in Ranks, c3 \in TenRanks, c4 \in Ranks :
      LET p == add_card(add_card(Hand_new, c1), c3)
          d == add_card(add_card(Hand_new, c2), c4)
      IN  /\ ~is_blackjack(p) /\ ~is_blackjack(d)
          /\ determine_first_action(p, c2) = "Stand"
          /\ determine_action(p, c2) = "Stand"
          /\ player_hand = [p EXCEPT !.first_action = FALSE, !.live = FALSE]
          /\ dealer_hand = d
          /\ deck = Remove(Remove(Remove(Remove(Deck_new(NumPacks),
                                                c1), c2), c3), c4)
          /\ last_game_result = None
          /\ games_played = 0 /\ wins = 0 /\ losses = 0 /\ pushes = 0
          /\ bankroll = InitialBankroll
          /\ bet_amount = BetAmount
          /\ pc = "dealer" /\ abort = "none"
          /\ pre = [games_played |-> 0, wins |-> 0, losses |-> 0,
                    pushes |-> 0, bankroll |-> InitialBankroll,
                    last_game_result |-> None,
                    found |-> deck_len(Deck_new(NumPacks)),
                    deck_len |-> deck_len(Deck_new(NumPacks))]
          /\ assigned = FALSE /\ plays = 1 /\ rounds = 0
          /\ loop_left = 0
          /\ pay_arg = None

SpecDealer == InitDealer /\ [][NextDealer]_vars

\* Sessions that are down to their last bet on a shoe of which only Aces,
\* fours and fives are left, recorded like LowSessions.  These cards make no
\* natural, no surrender and no bust, so every round runs to the code
\* after the dealer loop and pays the result it finds recorded: DealerWin
\* in these sessions, and none after a reset.  Whatever is requested, the
\* session ends after a few rounds, without money or aborted.
EndingSessions ==
    {
      [rounds |-> 111, bankroll |-> 0, games_played |-> 128,
       wins |-> 7, losses |-> 33, pushes |-> 0,
       last_game_result |-> "DealerWin",
       deck |-> <<3, 0, 0, 12, 20, 0, 0, 0, 0, 0, 0, 0, 0>>,
       player |-> <<4, 4, 4>>, dealer |-> <<4, 4, 4, 4, 4>>,
       doubled |-> FALSE, first_action |-> FALSE, live |-> FALSE,
       assigned |-> FALSE,
       pre |-> [games_played |-> 127, wins |-> 7, losses |-> 33,
                pushes |-> 0, bankroll |-> 1000,
                last_game_result |-> "DealerWin",
                found |-> 43, deck_len |-> 43]],
      [rounds |-> 110, bankroll |-> 1000, games_played |-> 127,
       wins |-> 7, losses |-> 33, pushes |-> 0,
       last_game_result |-> "DealerWin",
       deck |-> <<3, 0, 0, 20, 20, 0, 0, 0, 0, 0, 0, 0, 0>>,
       player |-> <<7, 7>>, dealer |-> <<3, 10, 4>>,
       doubled |-> FALSE, first_action |-> FALSE, live |-> FALSE,
       assigned |-> FALSE,
       pre |-> [games_played |-> 126, wins |-> 7, losses |-> 33,
                pushes |-> 0, bankroll |-> 2000,
                last_game_result |-> "DealerWin",
                found |-> 48, deck_len |-> 48]],
      [rounds |-> 111, bankroll |-> 1500, games_played |-> 129,
       wins |-> 6, losses |-> 38, pushes |-> 0,
       last_game_result |-> "DealerWin",
       deck |-> <<3, 0, 0, 12, 20, 0, 0, 0, 0, 0, 0, 0, 0>>,
       player |-> <<4, 4, 4>>, dealer |-> <<4, 4, 4, 4, 4>>,
       doubled |-> FALSE, first_action |-> FALSE, live |-> FALSE,
       assigned |-> FALSE,
       pre |-> [games_played |-> 128, wins |-> 6, losses |-> 38,
                pushes |-> 0, bankroll |-> 2500,
                last_game_result |-> "DealerWin",
                found |-> 43, deck_len |-> 43]]
    }

\* a session of EndingSessions between two requests
InitLowBankroll ==
    \E s \in EndingSessions :
      /\ Between(s)
      /\ pc = "idle"

SpecLowBankroll == InitLowBankroll /\ [][Next]_vars

\* pay_bet on its own.  The session has surrendered PayRounds rounds at
\* most (player [K, 6] against dealer [10, 5] each time, from the new shoe)
\* and is at the pay_bet call of one more such round (main.rs:366): the
\* result is recorded and the loss and the game are counted, the hand is
\* still live.  The call passes Surrender; pay_arg ranges over every
\* GameResult to apply pay_bet to each of them.
InitPay ==
    \E k \in 0..PayRounds, result \in GameResult :
      /\ last_game_result = "Surrender"
      /\ games_played = k + 1 /\ wins = 0 /\ losses = k + 1 /\ pushes = 0
      /\ bankroll = InitialBankroll + k * pay_bet("Surrender", BetAmount)
      /\ bet_amount = BetAmount
      /\ deck = [r \in Ranks |-> IF r \in {5, 6, 10, 13}
                                 THEN 4 * NumPacks - (k + 1)
                                 ELSE 4 * NumPacks]
      /\ player_hand = add_card(add_card(Hand_new, 13), 6)
      /\ dealer_hand = add_card(add_card(Hand_new, 10), 5)
      /\ pc = "pay" /\ abort = "none"
      /\ pre = [games_played |-> k, wins |-> 0, losses |-> k,
                pushes |-> 0, bankroll |-> bankroll,
                last_game_result |-> IF k = 0 THEN None ELSE "Surrender",
                found |-> deck_len(deck) + 4,
                deck_len |-> deck_len(deck) + 4]
      /\ assigned = TRUE /\ plays = k + 1 /\ rounds = k
      /\ loop_left = 0
      /\ pay_arg = result

\* the pay_bet call
PayBet ==
    /\ pc = "pay"
    /\ bankroll' = bankroll + pay_bet(pay_arg, bet_amount)
    /\ pc' = "paid"
    /\ UNCHANGED <<last_game_result, games_played, wins, losses, pushes,
                   deck, bet_amount, hands, abort, history, loop_left,
                   pay_arg>>

SpecPay == InitPay /\ [][PayBet]_vars

\* ------------------------------------------------------------- properties
\* play_game has returned and no reset has followed: pre is the session the
\* round started from, the hands are the hands of that round
Returned == pc = "idle" /\ rounds > 0

\* the two hands as dealt
Dealt(hand) == [hand EXCEPT !.cards = SubSeq(@, 1, 2)]

\* the hands have been dealt in this call of play_game or in the call that
\* has returned; when play_game is entered they still are the hands of the
\* round before
HandsDealt == pc # "called" /\ Len(player_hand.cards) >= 2

NaturalDealt ==
    /\ HandsDealt
    /\ (is_blackjack(Dealt(player_hand)) \/ is_blackjack(Dealt(dealer_hand)))

\* the first action of the round is Surrender
SurrenderDealt ==
    /\ HandsDealt
    /\ ~NaturalDealt
    /\ determine_first_action(Dealt(player_hand), dealer_hand.cards[1])
         = "Surrender"

\* the counters and the bankroll moved by exactly these amounts in the round
Moved(dw, dl, dp, dbank) ==
    /\ wins = pre.wins + dw
    /\ losses = pre.losses + dl
    /\ pushes = pre.pushes + dp
    /\ bankroll = pre.bankroll + dbank

\* C1: every call of play_game adds exactly 1 to games_played, so that after
\* k rounds since the last reset games_played = k.
C1_GamesPlayedOncePerRound ==
    /\ pc = "idle" => games_played = rounds
    /\ Returned => games_played = pre.games_played + 1

\* C2: every completed round adds 1 to exactly one of wins, losses, pushes,
\* so that games_played = wins + losses + pushes between rounds.
C2_OneCounterPerRound ==
    /\ pc = "idle" => games_played = wins + losses + pushes
    /\ Returned =>
         \/ Moved(1, 0, 0, bankroll - pre.bankroll)
         \/ Moved(0, 1, 0, bankroll - pre.bankroll)
         \/ Moved(0, 0, 1, bankroll - pre.bankroll)

\* C3: when play_game has returned, last_game_result is a result that was
\* assigned during that round.
C3_ResultSetThisRound ==
    Returned => (assigned /\ last_game_result \in GameResult)

\* C4: the bankroll changes in a round by the payout of the result recorded
\* for that round, once.
C4_PayoutOncePerRound ==
    Returned =>
        /\ last_game_result \in GameResult
        /\ bankroll = pre.bankroll + pay_bet(last_game_result, BetAmount)

\* the round went past the first action and nobody busted
ComparedRound ==
    /\ Returned
    /\ ~player_hand.first_action
    /\ ~is_busted(player_hand)
    /\ ~is_busted(dealer_hand)

\* C5: without natural, surrender or bust the totals decide: the higher
\* total wins (DoubledWin / DoubledLose when doubled), equal totals push.
C5_TotalsDecide ==
    ComparedRound =>
        LET p == total(player_hand)
            d == total(dealer_hand)
            k == IF player_hand.doubled THEN 2 ELSE 1
        IN  /\ p > d => /\ last_game_result
                            = (IF player_hand.doubled THEN "DoubledWin"
                               ELSE "PlayerWin")
                        /\ Moved(1, 0, 0, k * BetAmount)
            /\ p < d => /\ last_game_result
                            = (IF player_hand.doubled THEN "DoubledLose"
                               ELSE "DealerWin")
                        /\ Moved(0, 1, 0, 0 - k * BetAmount)
            /\ p = d => /\ last_game_result = "Push"
                        /\ Moved(0, 0, 1, 0)

\* the player busted on a Hit of the player turn
PlayerBustedOnHit ==
    /\ ~player_hand.first_action
    /\ ~player_hand.doubled
    /\ is_busted(player_hand)

\* C6: when the player busts on a Hit the round ends there: DealerWin, one
\* loss, one bet lost, one game played, and the dealer never draws.
C6_PlayerBustEndsRound ==
    /\ PlayerBustedOnHit => Len(dealer_hand.cards) = 2
    /\ (Returned /\ PlayerBustedOnHit) =>
          /\ last_game_result = "DealerWin"
          /\ Moved(0, 1, 0, 0 - BetAmount)
          /\ games_played = pre.games_played + 1

\* C7: a natural ends the round at once: both blackjack is a Push with the
\* bankroll unchanged, dealer only is DealerWin and costs the bet, player
\* only is PlayerBlackjack and pays one and a half bets; no card is drawn
\* after the four dealt and the first action is not taken.
C7_NaturalCheck ==
    NaturalDealt =>
        /\ pc = "idle"
        /\ Len(player_hand.cards) = 2 /\ Len(dealer_hand.cards) = 2
        /\ player_hand.first_action /\ player_hand.live
        /\ Returned =>
             /\ deck_len(deck) = pre.deck_len - 4
             /\ games_played = pre.games_played + 1
             /\ assigned
             /\ (is_blackjack(player_hand) /\ is_blackjack(dealer_hand)) =>
                    (last_game_result = "Push" /\ Moved(0, 0, 1, 0))
             /\ (~is_blackjack(player_hand) /\ is_blackjack(dealer_hand)) =>
                    /\ last_game_result = "DealerWin"
                    /\ Moved(0, 1, 0, 0 - BetAmount)
             /\ (is_blackjack(player_hand) /\ ~is_blackjack(dealer_hand)) =>
                    /\ last_game_result = "PlayerBlackjack"
                    /\ Moved(1, 0, 0, BetAmount + BetAmount \div 2)

\* a session that had lost before is paid a natural of the player alone
C7_Witness ==
    /\ Returned /\ plays = 1 /\ rounds > 1
    /\ is_blackjack(player_hand) /\ ~is_blackjack(dealer_hand)
    /\ last_game_result = "PlayerBlackjack"
    /\ pre.last_game_result = "DealerWin"
    /\ pre.bankroll < InitialBankroll
    /\ bankroll = pre.bankroll + BetAmount + BetAmount \div 2

\* C8: a first action of Surrender ends the round at once: result Surrender,
\* one loss, one game played, half the bet lost, and nobody draws a card.
C8_Surrender ==
    SurrenderDealt =>
        /\ pc \in {"first", "idle"}
        /\ Len(player_hand.cards) = 2 /\ Len(dealer_hand.cards) = 2
        /\ Returned =>
             /\ last_game_result = "Surrender"
             /\ assigned
             /\ Moved(0, 1, 0, 0 - BetAmount \div 2)
             /\ games_played = pre.games_played + 1
             /\ deck_len(deck) = pre.deck_len - 4
             /\ ~player_hand.live

\* a round ended by the surrender of a hard 16 against a ten
C8_Witness ==
    /\ Returned /\ SurrenderDealt
    /\ total(player_hand) = 16 /\ value(dealer_hand.cards[1]) = 10
    /\ last_game_result = "Surrender"
    /\ bankroll = pre.bankroll - BetAmount \div 2

\* C9: no call of play_game aborts part-way.
C9_NoAbort == pc # "aborted"

\* C10: no deal_card call finds the deck empty.
C10_NoEmptyDeck == abort # "EmptyDeck"

\* the payout table for a bet of 10.0, in cents
PayoutTable(result) ==
    CASE result = "PlayerWin"       -> 1000
      [] result = "DealerWin"       -> 0 - 1000
      [] result = "Push"            -> 0
      [] result = "PlayerBlackjack" -> 1500
      [] result = "Surrender"       -> 0 - 500
      [] result = "DoubledWin"      -> 2000
      [] result = "DoubledLose"     -> 0 - 2000

\* C11: pay_bet changes the bankroll by exactly the table amount of the
\* result (+10, -10, 0, +15, -5, +20, -20 for a bet of 10) and changes
\* nothing else in the session.
C11_PayBetTable ==
    [][pc = "pay" =>
         /\ bankroll' = bankroll + PayoutTable(pay_arg)
         /\ UNCHANGED <<last_game_result, games_played, wins, losses,
                        pushes, deck, bet_amount>>]_vars

\* pay_bet has paid a natural in a session that had lost money before
C11_Witness ==
    /\ pc = "paid"
    /\ pay_arg = "PlayerBlackjack"
    /\ pre.bankroll < InitialBankroll
    /\ bankroll = pre.bankroll + 1500
    /\ last_game_result = "Surrender"
    /\ games_played = pre.games_played + 1

\* the sum of a hand with every Ace counted as 1
HardSum(cards) == SumValues(cards) - 10 * CountAces(cards)

\* a soft hand: it holds an Ace that total() still counts as 11
SoftHand(hand) ==
    /\ CountAces(hand.cards) > 0
    /\ HardSum(hand.cards) + 10 <= 21

\* the priority table of the first action, the dealer range of an "or"
\* rule applying to both of its totals
FirstActionTable(hand, upcard) ==
    LET t == total(hand)
        d == value(upcard)
        soft == SoftHand(hand)
        pair == hand.cards[1] = hand.cards[2]
    IN  IF soft /\ hand.cards[1] = 1 /\ hand.cards[2] = 1 THEN "Split"
        ELSE IF soft /\ t = 19 /\ d = 6 THEN "DoubleDown"
        ELSE IF soft /\ t = 18 /\ d <= 6 THEN "DoubleDown"
        ELSE IF soft /\ t = 17 /\ d \in 3..6 THEN "DoubleDown"
        ELSE IF soft /\ t \in {16, 15} /\ d \in 4..6 THEN "DoubleDown"
        ELSE IF soft /\ t \in {14, 13} /\ d \in 5..6 THEN "DoubleDown"
        ELSE IF pair /\ t = 18 /\ (d < 7 \/ d >= 10) THEN "Split"
        ELSE IF pair /\ t = 16 THEN "Split"
        ELSE IF pair /\ t = 14 /\ d <= 7 THEN "Split"
        ELSE IF pair /\ t = 12 /\ d \in 3..7 THEN "Split"
        ELSE IF pair /\ t \in {6, 4} /\ d \in 4..7 THEN "Split"
        ELSE IF t = 16 /\ d \in 9..11 THEN "Surrender"
        ELSE IF t = 15 /\ d = 10 THEN "Surrender"
        ELSE IF t = 11 THEN "DoubleDown"
        ELSE IF t = 10 /\ d < 10 THEN "DoubleDown"
        ELSE IF t = 9 /\ d \in 3..6 THEN "DoubleDown"
        ELSE "Stand"

\* C12: on every two-card hand and dealer upcard determine_first_action
\* returns the action of the first matching rule of the priority table.
C12_FirstActionTable ==
    pc = "first" =>
        determine_first_action(player_hand, dealer_hand.cards[1])
          = FirstActionTable(player_hand, dealer_hand.cards[1])

\* the rules of the later actions
ActionTable(hand, upcard) ==
    LET t == total(hand)
        d == value(upcard)
        soft == SoftHand(hand)
    IN  IF \/ soft /\ t <= 17
           \/ soft /\ t = 18 /\ d >= 9
           \/ t <= 11
           \/ t = 12 /\ (d < 4 \/ d > 6)
           \/ t \in 13..16 /\ d >= 7
        THEN "Hit" ELSE "Stand"

\* C13: on every hand of two or more cards that is not busted
\* determine_action returns Hit exactly when a Hit rule holds (soft and at
\* most 17, soft 18 against 9 or more, at most 11, 12 against less than 4
\* or more than 6, 13 to 16 against 7 or more) and Stand otherwise, soft
\* meaning that an Ace is still counted as 11.
C13_ActionTable ==
    (pc = "player" /\ ~is_busted(player_hand)) =>
        determine_action(player_hand, dealer_hand.cards[1])
          = ActionTable(player_hand, dealer_hand.cards[1])

\* C14: the reset sets games_played, wins, losses and pushes to 0, the
\* bankroll to 1000.0 and last_game_result to None, and leaves the deck and
\* the bet amount as they are.  Between two rounds the reset is the only
\* step that is not a play_game call.
C14_Reset ==
    [][(pc = "idle" /\ pc' = "idle" /\ plays' = plays
                    /\ loop_left' = loop_left) =>
         /\ games_played' = 0 /\ wins' = 0 /\ losses' = 0 /\ pushes' = 0
         /\ bankroll' = 100000
         /\ last_game_result' = None
         /\ deck' = deck
         /\ bet_amount' = bet_amount]_vars

\* the session was reset after the round that lost its last bet
C14_Witness ==
    /\ pc = "idle" /\ plays = 1 /\ rounds = 0
    /\ pre.bankroll = BetAmount /\ pre.losses > 0
    /\ pre.last_game_result = "DealerWin"
    /\ bankroll = InitialBankroll /\ losses = 0 /\ games_played = 0
    /\ last_game_result = None
    /\ Len(dealer_hand.cards) > 2
    /\ deck_len(deck) = pre.deck_len - Len(player_hand.cards)
                                     - Len(dealer_hand.cards)

\* C15: no round is started while the bankroll is below the bet: the "Play
\* Game" button only acts when bankroll >= bet_amount and the loop of "Play
\* 1000 Games" tests the bankroll before every iteration and stops.
C15_NoRoundWhenBroke ==
    [][plays' # plays => bankroll >= bet_amount]_vars

\* the loop has played a round with enough money and finds the bankroll
\* below the bet before its next iteration
C15_Witness ==
    /\ pc = "idle"
    /\ loop_left > 0 /\ loop_left < LoopGames
    /\ pre.bankroll >= bet_amount
    /\ bankroll < bet_amount

\* the hand when it held its first n cards
FirstCards(hand, n) == [hand EXCEPT !.cards = SubSeq(@, 1, n)]

\* the round is over and it went past the first action, so the dealer
\* has played
DealerDone == pc \in {"idle", "aborted"} /\ ~player_hand.first_action

\* C16: the dealer draws a card only while the dealer total is below 17
\* and stops at 17 or more, soft or not: when the drawing has ended the
\* total is at least 17, and a total above 21 is detected right after the
\* draw that caused it and ends the round.
C16_DealerRule ==
    /\ \A n \in 2..(Len(dealer_hand.cards) - 1) :
          total(FirstCards(dealer_hand, n)) < 17
    /\ DealerDone => total(dealer_hand) >= 17
    /\ is_busted(dealer_hand) =>
          /\ pc = "idle"
          /\ last_game_result = "PlayerWin"
          /\ ~is_busted(FirstCards(dealer_hand, Len(dealer_hand.cards) - 1))

\* the dealer drew to a soft 17 and stood
C16_Witness ==
    /\ DealerDone
    /\ Len(dealer_hand.cards) = 3
    /\ total(dealer_hand) = 17
    /\ SoftHand(dealer_hand)

\* C17: the shoe is rebuilt (312 cards, 24 of each rank) at the start of a
\* round exactly when fewer than 15 cards remain; with 15 or more the round
\* deals from the shoe as it is; the shoe is never rebuilt inside a round.
C17_Reshuffle ==
    [][/\ (plays' # plays /\ deck_len(deck) < 15) =>
            /\ pre'.deck_len = 312
            /\ deck_len(deck') = 312 - 4
            /\ \A r \in Ranks : deck'[r] <= 24
       /\ (plays' # plays /\ deck_len(deck) >= 15) =>
            /\ pre'.deck_len = deck_len(deck)
            /\ deck_len(deck') = deck_len(deck) - 4
            /\ \A r \in Ranks : deck'[r] <= deck[r]
       /\ plays' = plays =>
            \A r \in Ranks : deck'[r] <= deck[r]]_vars

\* a round that found 14 cards in the shoe was dealt from a new shoe and
\* the player has drawn a card from it
C17_Witness ==
    /\ plays = 1
    /\ pre.found = 14
    /\ pre.deck_len = 312
    /\ Len(player_hand.cards) = 3 /\ Len(dealer_hand.cards) = 2
    /\ deck_len(deck) = 307

\* C18: is_soft() is true exactly when the hand is not busted and total()
\* still counts one of its Aces as 11, [A, A] and [A, A, 5] included.
C18_IsSoft ==
    \A h \in {player_hand, dealer_hand} :
        is_soft(h) <=> /\ ~is_busted(h)
                       /\ CountAces(h.cards) > 0
                       /\ total(h) = HardSum(h.cards) + 10

\* the first action of the round, taken on the two cards dealt
FirstActionTaken ==
    determine_first_action(Dealt(player_hand), dealer_hand.cards[1])

\* C19: after a first action of DoubleDown the player has drawn exactly
\* one card, the hand is doubled and inactive and the player loop is not
\* entered, so the hand holds three cards to the end of the round; after a
\* first action of Split the hand is inactive and the player draws no card.
C19_DoubleAndSplit ==
    ~player_hand.first_action =>
        /\ FirstActionTaken = "DoubleDown" =>
              /\ Len(player_hand.cards) = 3
              /\ player_hand.doubled /\ ~player_hand.live
              /\ pc # "player"
        /\ FirstActionTaken = "Split" =>
              /\ Len(player_hand.cards) = 2
              /\ ~player_hand.doubled /\ ~player_hand.live
              /\ pc # "player"

\* a round is over in which the player doubled down and the dealer drew
C19_Witness ==
    /\ DealerDone
    /\ FirstActionTaken = "DoubleDown"
    /\ Len(player_hand.cards) = 3 /\ player_hand.doubled
    /\ Len(dealer_hand.cards) > 2

\* C20: a hand on which determine_first_action returns DoubleDown is not
\* busted by the one card it draws, whatever the card, so the first action
\* never records DoubledLose.
C20_DoubleNeverBusts ==
    /\ (pc = "first" /\ FirstActionTaken = "DoubleDown") =>
          \A c \in Ranks : ~is_busted(double_down(player_hand, c))
    /\ player_hand.doubled => ~is_busted(player_hand)
    /\ last_game_result # "DoubledLose"

\* a soft 18 was doubled against a 6 and drew an Ace
C20_Witness ==
    /\ player_hand.doubled
    /\ Len(player_hand.cards) = 3
    /\ SoftHand(Dealt(player_hand)) /\ total(Dealt(player_hand)) = 18
    /\ player_hand.cards[3] = 1
    /\ total(player_hand) = 19

====
